---- MODULE Spec2Model ----
(***************************************************************************)
(* Model of the MAUI development-machine cleaner (src/extension.js).       *)
(*                                                                         *)
(* A name (a directory name, a label) is a sequence of atoms.  An atom is  *)
(* one character, except ".asset", which stands for those six characters   *)
(* wherever they occur in a name, and the atoms of the root directories,   *)
(* which are never taken apart.  A path is a sequence of names.            *)
(***************************************************************************)
EXTENDS Integers, Sequences, FiniteSets, TLC

VARIABLES
    platform,      \* process.platform
    dirs,          \* the directories that exist on disk (a set of paths)
    manifest,      \* the simulator-runtime XML file: absent, unparsable or parsed, with its elements
    androidSdkPath, \* the setting mauiCleaner.androidSdkPath (<<>>: not set)
    cmd,           \* the command of this invocation, "none" before it is invoked
    pc,            \* where the invocation is suspended
    items,         \* the list handed to showQuickPick
    batch,         \* the paths the removal loop iterates over
    idx,           \* position of the removal loop in batch
    removedCount,  \* the command's removedCount
    totalSize,     \* the command's totalSize
    msgs,          \* the messages shown so far (showInformationMessage / showErrorMessage)
    log,           \* history: one record per call of deleteFolderRecursive
    picked,        \* history: what the multi-select picker returned
    confirmed,     \* history: what the in-use warning returned
    component,     \* history: what the component picker of cleanAndroidSdk returned
    todo,          \* keep-latest sweep: the steps still ahead
    queue,         \* keep-latest sweep: versionsToRemove of the current group, not yet deleted
    dirs0,         \* history: dirs when the command was invoked
    cleared,       \* history: what the cache-clear operation of cleanNugetCache reported
    labA, labB, cmpRes,   \* comparator harness: two labels and the comparison's result
    group, removal,       \* keepLatestVersion harness: the argument and the returned list
    sizeArg, sizeRes,     \* getFolderSize harness: the argument and what the call produced
    inv                   \* two concurrent removal loops: the state of each invocation

cmdVars == <<platform, dirs, manifest, androidSdkPath, cmd, pc, items, batch, idx, removedCount,
             totalSize, msgs, log, picked, confirmed, component, todo, queue, dirs0, cleared>>
pureVars == <<labA, labB, cmpRes, group, removal, sizeArg, sizeRes>>
vars == <<cmdVars, pureVars, inv>>

----------------------------------------------------------------------------
(* Bounds of the model.                                                    *)

\* Longest label the comparator harness enumerates exhaustively.
MaxLabelLen == 3
\* Largest sibling group handed to keepLatestVersion by its harness.
MaxGroup == 3
\* Most deletions that fail within one command invocation.
MaxFailures == 2

----------------------------------------------------------------------------
(* Characters and the collation used by String.prototype.localeCompare.    *)

TAB == "\t"
SP == " "

\* The characters of the model in the order of their primary collation
\* weights (root collation: white space, punctuation, digits, letters).
Alphabet ==
    <<TAB, SP, "-", ".", "(", ")",
      "0", "1", "2", "3", "4", "5", "6", "7", "8", "9",
      "a", "b", "d", "i", "n", "o", "r", "x">>

Digits == {"0", "1", "2", "3", "4", "5", "6", "7", "8", "9"}

Weight(c) == CHOOSE i \in 1..Len(Alphabet) : Alphabet[i] = c

DigitValue(c) == Weight(c) - Weight("0")

\* End of the run of digits that starts at position i of s.
RECURSIVE DigitRunEnd(_, _)
DigitRunEnd(s, i) ==
    IF i < Len(s) /\ s[i + 1] \in Digits THEN DigitRunEnd(s, i + 1) ELSE i

\* The number written by the digits s[i..j]; leading zeros do not count.
RECURSIVE DigitRunValue(_, _, _)
DigitRunValue(s, i, j) ==
    IF j < i THEN 0 ELSE 10 * DigitRunValue(s, i, j - 1) + DigitValue(s[j])

\* The collation elements of s under { numeric: true }: a run of digits is one
\* element that sorts among the digits by its numeric value, every other
\* character is one element of its own weight.
RECURSIVE CollationKey(_, _)
CollationKey(s, i) ==
    IF i > Len(s) THEN <<>>
    ELSE IF s[i] \in Digits
         THEN LET j == DigitRunEnd(s, i)
              IN  <<(<<Weight("0"), DigitRunValue(s, i, j)>>)>> \o CollationKey(s, j + 1)
         ELSE <<(<<Weight(s[i]), 0>>)>> \o CollationKey(s, i + 1)

CompareElement(e, f) ==
    IF e[1] # f[1] THEN (IF e[1] < f[1] THEN -1 ELSE 1)
    ELSE IF e[2] # f[2] THEN (IF e[2] < f[2] THEN -1 ELSE 1)
    ELSE 0

RECURSIVE CompareKeys(_, _, _)
CompareKeys(k, l, i) ==
    IF i > Len(k) /\ i > Len(l) THEN 0
    ELSE IF i > Len(k) THEN -1
    ELSE IF i > Len(l) THEN 1
    ELSE LET c == CompareElement(k[i], l[i])
         IN  IF c # 0 THEN c ELSE CompareKeys(k, l, i + 1)

\* A comparison that orders the characters one by one (no numeric runs).
LexicalCompare(x, y) ==
    CompareKeys([i \in 1..Len(x) |-> <<Weight(x[i]), 0>>],
                [i \in 1..Len(y) |-> <<Weight(y[i]), 0>>], 1)

\* x.localeCompare(y, undefined, { numeric: true }): -1, 0 or 1.
localeCompareNumeric(x, y) ==
    CompareKeys(CollationKey(x, 1), CollationKey(y, 1), 1)

\* Position of the first c in s, 0 when there is none.
RECURSIVE IndexOf(_, _, _)
IndexOf(s, c, i) ==
    IF i > Len(s) THEN 0
    ELSE IF s[i] = c THEN i
    ELSE IndexOf(s, c, i + 1)

\* label.split(' ')[0]: the part before the first space character.
splitFirst(label) ==
    LET i == IndexOf(label, SP, 1)
    IN  IF i = 0 THEN label ELSE SubSeq(label, 1, i - 1)

\* The callback of keepLatestVersion's sort: negative when a sorts before b.
sortComparator(a, b) ==
    localeCompareNumeric(splitFirst(b.label), splitFirst(a.label))

----------------------------------------------------------------------------
(* The file system.                                                        *)

Platforms == {"darwin", "win32", "linux"}

ASSET == ".asset"

\* Names of the directories of the model.
Ds93 == <<"9", ".", "3">>
Ds164a == <<"1", "6", ".", "4", SP, "(", "a", ")">>
Ds164b == <<"1", "6", ".", "4", SP, "(", "b", ")">>
Android30 == <<"a", "n", "d", "r", "o", "i", "d", "-", "3", "0">>
Android31 == <<"a", "n", "d", "r", "o", "i", "d", "-", "3", "1">>
Android33 == <<"a", "n", "d", "r", "o", "i", "d", "-", "3", "3">>
Bt3003 == <<"3", "0", ".", "0", ".", "3">>
Bt3300 == <<"3", "3", ".", "0", ".", "0">>
Latest == <<"latest">>
V803 == <<"8", ".", "0", ".", "3">>
V8010 == <<"8", ".", "0", ".", "1", "0">>
V1701 == <<"1", "7", ".", "0", ".", "1">>
PackMaui == <<"Microsoft.Maui.Sdk">>
PackIos == <<"Microsoft.iOS.Sdk">>
AssetA == <<"A", ASSET>>
AssetB == <<"B", ASSET>>
AssetAx == <<"A", ASSET, "x", ASSET>>
DataFile == <<"data.bin">>
DsStore == <<".DS_Store">>

Join(p, name) == Append(p, name)

IsPrefix(p, q) == Len(p) <= Len(q) /\ SubSeq(q, 1, Len(p)) = p

deviceSupportPath == << <<"HOME/Library/Developer/Xcode/iOS DeviceSupport">> >>

runtimePath == << <<"/System/Library/AssetsV2/com_apple_MobileAsset_iOSSimulatorRuntime">> >>

defaultSdkRoot(plat) ==
    IF plat = "win32"
    THEN << <<"LOCALAPPDATA/Android/android-sdk">> >>
    ELSE << <<"HOME/Library/Developer/Xamarin/android-sdk-macosx">> >>

nugetCachePath(plat) ==
    IF plat = "win32"
    THEN << <<"USERPROFILE/.nuget/packages">> >>
    ELSE << <<"HOME/.nuget/packages">> >>

packsPathOf(plat) ==
    IF plat = "win32"
    THEN << <<"ProgramFiles/dotnet/packs">> >>
    ELSE << <<"/usr/local/share/dotnet/packs">> >>

SdkComponents ==
    <<[name |-> "System Images", path |-> <<"system-images">>],
      [name |-> "Platforms", path |-> <<"platforms">>],
      [name |-> "Build Tools", path |-> <<"build-tools">>],
      [name |-> "Command-line Tools", path |-> <<"cmdline-tools">>]>>

SweepComponents == << <<"platforms">>, <<"system-images">>, <<"build-tools">> >>

\* The regular files of a fully populated machine, each with its byte length.
DsFiles ==
    {<<Join(Join(deviceSupportPath, Ds93), DataFile), 700>>,
     <<Join(Join(deviceSupportPath, Ds164a), DataFile), 2048>>,
     <<Join(Join(deviceSupportPath, Ds164b), DataFile), 1536>>,
     <<Join(deviceSupportPath, DsStore), 6>>}

SdkFiles(plat) ==
    LET root == defaultSdkRoot(plat)
    IN  {<<Join(Join(Join(root, <<"platforms">>), Android30), DataFile), 300>>,
         <<Join(Join(Join(root, <<"platforms">>), Android33), DataFile), 1024>>,
         <<Join(Join(Join(root, <<"platforms">>), Android31), DataFile), 1000>>,
         <<Join(Join(Join(root, <<"build-tools">>), Bt3003), DataFile), 10>>,
         <<Join(Join(Join(root, <<"build-tools">>), Bt3300), DataFile), 20>>,
         <<Join(Join(Join(Join(root, <<"system-images">>), Android33), <<"google_apis">>), DataFile), 4096>>,
         <<Join(Join(Join(root, <<"system-images">>), Android33), DataFile), 1>>,
         <<Join(Join(Join(root, <<"cmdline-tools">>), Latest), DataFile), 50>>}

customSdkRoot == << <<"/opt/android-sdk">> >>

CustomSdkFiles ==
    {<<Join(Join(Join(customSdkRoot, <<"platforms">>), Android30), DataFile), 30>>,
     <<Join(Join(Join(customSdkRoot, <<"platforms">>), Android31), DataFile), 31>>}

PackFiles(plat) ==
    LET root == packsPathOf(plat)
    IN  {<<Join(Join(Join(root, PackMaui), V803), DataFile), 100>>,
         <<Join(Join(Join(root, PackMaui), V8010), DataFile), 200>>,
         <<Join(Join(root, PackMaui), DataFile), 5>>,
         <<Join(Join(Join(root, PackIos), V1701), DataFile), 400>>}

NugetFiles(plat) ==
    LET root == nugetCachePath(plat)
    IN  {<<Join(Join(Join(root, <<"newtonsoft.json">>), <<"13.0.1">>), DataFile), 800>>,
         <<Join(Join(Join(root, <<"newtonsoft.json">>), <<"13.0.3">>), DataFile), 900>>,
         <<Join(Join(Join(root, <<"xunit">>), <<"2.4.2">>), DataFile), 64>>}

RuntimeFiles ==
    {<<Join(Join(runtimePath, AssetA), DataFile), 3000>>,
     <<Join(Join(runtimePath, AssetB), DataFile), 500>>,
     <<Join(Join(runtimePath, AssetAx), DataFile), 60>>}

\* A directory tree of its own, for getFolderSize: regular files at three
\* depths, an empty directory, and the two entries below that are neither
\* regular files nor directories.
treeRoot == << <<"T">> >>

TreeFiles ==
    {<<Join(treeRoot, <<"f1">>), 7>>,
     <<Join(Join(treeRoot, <<"d">>), <<"f2">>), 11>>,
     <<Join(Join(Join(treeRoot, <<"d">>), <<"e">>), <<"f3">>), 13>>}

TreeEmptyDir == Join(treeRoot, <<"x">>)

\* Entries that fs.statSync reports as neither a file nor a directory (a
\* socket, a FIFO).
OtherEntries == {Join(treeRoot, <<"sock">>)}

\* Symbolic links whose target does not exist: fs.statSync follows the link
\* and throws ENOENT.
DanglingLinks == {Join(Join(treeRoot, <<"d">>), <<"link">>)}

LayoutFiles(plat, layout) ==
    CASE layout = "deviceSupport" -> DsFiles
      [] layout = "sdk" -> SdkFiles(plat)
      [] layout = "customSdk" -> CustomSdkFiles
      [] layout = "packs" -> PackFiles(plat)
      [] layout = "runtime" -> RuntimeFiles
      [] layout = "nuget" -> NugetFiles(plat)
      [] layout = "tree" -> TreeFiles

Layouts == {"deviceSupport", "sdk", "customSdk", "packs", "runtime", "nuget"}

\* The regular files of each platform's machine, their paths and their sizes,
\* as tables.
FileTables ==
    [plat \in Platforms |-> UNION {LayoutFiles(plat, layout) : layout \in Layouts \cup {"tree"}}]

FilePathSets == [plat \in Platforms |-> {e[1] : e \in FileTables[plat]}]

FileSizes ==
    [plat \in Platforms |->
        [p \in FilePathSets[plat] |-> (CHOOSE e \in FileTables[plat] : e[1] = p)[2]]]

FileTable(plat) == FileTables[plat]

FilePaths(plat) == FilePathSets[plat]

\* stat.size of a regular file.
FileSize(plat, p) == FileSizes[plat][p]

\* The files of a table with the directories that hold them.
DiskOf(table) ==
    UNION {{SubSeq(e[1], 1, k) : k \in 1..Len(e[1])} : e \in table}

\* Every file and directory of a fully populated machine.
FullDisk(plat) == DiskOf(UNION {LayoutFiles(plat, layout) : layout \in Layouts})

isFile(plat, p) == p \in FilePaths(plat)

isDirectory(plat, p) ==
    p \notin FilePaths(plat) /\ p \notin OtherEntries /\ p \notin DanglingLinks

existsSync(disk, p) == p \in disk

\* fs.readdirSync: the paths of the entries directly inside p.
readdirSync(disk, p) == {q \in disk : Len(q) = Len(p) + 1 /\ IsPrefix(p, q)}

\* The subdirectories directly inside p.
Subdirectories(plat, disk, p) == {q \in readdirSync(disk, p) : isDirectory(plat, q)}

\* The orders in which readdirSync may list a set of entries (the order is the
\* file system's).
Orderings(S) ==
    {s \in [1..Cardinality(S) -> S] : \A i, j \in 1..Cardinality(S) : i # j => s[i] # s[j]}

basename(p) == p[Len(p)]

\* The number getFolderSize returns when no fs.statSync of its walk throws.
RECURSIVE getFolderSize(_, _, _)
getFolderSize(plat, disk, p) ==
    IF ~existsSync(disk, p) THEN 0
    ELSE LET entries == readdirSync(disk, p)
             first == CHOOSE q \in entries : TRUE
             rest == {q \in disk : ~IsPrefix(first, q)}
         IN  IF entries = {} THEN 0
             ELSE (IF isFile(plat, first) THEN FileSize(plat, first)
                   ELSE IF isDirectory(plat, first) THEN getFolderSize(plat, disk, first)
                   ELSE 0)
                  + getFolderSize(plat, rest, p)

\* Whether a call of getFolderSize throws: its walk, which descends into
\* every directory, comes to an entry whose fs.statSync throws.
getFolderSizeThrows(disk, p) ==
    /\ existsSync(disk, p)
    /\ \E q \in disk : q \in DanglingLinks /\ IsPrefix(p, q)

\* The disk after rm -rf / rmdir /s /q of p succeeded.
Deleted(disk, p) == {q \in disk : ~IsPrefix(p, q)}

\* Math.floor(Math.log(bytes) / Math.log(1024)) for bytes >= 1.
RECURSIVE UnitIndex(_)
UnitIndex(bytes) == IF bytes < 1024 THEN 0 ELSE 1 + UnitIndex(bytes \div 1024)

RECURSIVE Pow1024(_)
Pow1024(i) == IF i = 0 THEN 1 ELSE 1024 * Pow1024(i - 1)

\* formatBytes: the number it prints, in hundredths (toFixed(2)), and the
\* index of the unit it appends; "0 Bytes" for 0.
formatBytes(bytes) ==
    IF bytes = 0 THEN [number |-> 0, unit |-> 0]
    ELSE LET i == UnitIndex(bytes)
             k == Pow1024(i)
         IN  [number |-> (200 * bytes + k) \div (2 * k), unit |-> i]

\* parseInt(description.split(': ')[1]): the integer part of the printed number.
parseIntOf(formatted) == formatted.number \div 100

----------------------------------------------------------------------------
(* Items, messages and the pieces the commands share.                      *)

Item(label, path, size, isUsed, kind) ==
    [label |-> label, path |-> path, description |-> formatBytes(size),
     isUsed |-> isUsed, kind |-> kind]

Info(text, arg) == [kind |-> "info", text |-> text, arg |-> arg]

Error(text, arg) == [kind |-> "error", text |-> text, arg |-> arg]

Summary(text, count, bytes) ==
    [kind |-> "info", text |-> text, arg |-> <<count, formatBytes(bytes)>>]

\* The comparator of the "Sort by size" callbacks.
bySize(a, b) == parseIntOf(b.description) - parseIntOf(a.description)

\* The comparator of the "Sort by usage status and size" callback.
byUsageAndSize(a, b) ==
    IF a.isUsed # b.isUsed THEN (IF a.isUsed THEN 1 ELSE -1) ELSE bySize(a, b)

\* The callbacks handed to Array.prototype.sort, by the place that sorts.
compareItems(mode, a, b) ==
    CASE mode = "version" -> sortComparator(a, b)
      [] mode = "size" -> bySize(a, b)
      [] mode = "usage" -> byUsageAndSize(a, b)
      [] mode = "packs" -> bySize(a.item, b.item)

\* Array.prototype.sort is stable: x goes behind every element it does not
\* strictly precede.
RECURSIVE InsertSorted(_, _, _)
InsertSorted(mode, sorted, x) ==
    IF sorted = <<>> THEN <<x>>
    ELSE IF compareItems(mode, x, Head(sorted)) < 0 THEN <<x>> \o sorted
    ELSE <<Head(sorted)>> \o InsertSorted(mode, Tail(sorted), x)

RECURSIVE StableSort(_, _)
StableSort(mode, s) ==
    IF s = <<>> THEN <<>>
    ELSE InsertSorted(mode, StableSort(mode, SubSeq(s, 1, Len(s) - 1)), s[Len(s)])

\* keepLatestVersion with the slice taken at the wrong end.
keepOldestVersion(versions) ==
    IF Len(versions) <= 1 THEN <<>>
    ELSE SubSeq(StableSort("version", versions), 1, Len(versions) - 1)

\* keepLatestVersion without the sort.
keepAllButFirst(versions) ==
    IF Len(versions) <= 1 THEN <<>>
    ELSE Tail(versions)

keepLatestVersion(versions) ==
    IF Len(versions) <= 1 THEN <<>>
    ELSE Tail(StableSort("version", versions))

\* The subsequences of s, as the sets of positions kept.
RECURSIVE KeepPositions(_, _, _)
KeepPositions(s, keep, i) ==
    IF i > Len(s) THEN <<>>
    ELSE (IF i \in keep THEN <<s[i]>> ELSE <<>>) \o KeepPositions(s, keep, i + 1)

Selections(s) == {KeepPositions(s, keep, 1) : keep \in SUBSET (1..Len(s))}

RECURSIVE SelectSeq2(_, _)
SelectSeq2(s, kind) ==
    IF s = <<>> THEN <<>>
    ELSE (IF Head(s).kind = kind THEN <<Head(s).path>> ELSE <<>>) \o SelectSeq2(Tail(s), kind)

Paths(s) == [i \in 1..Len(s) |-> s[i].path]

FailureCount(history) == Cardinality({i \in 1..Len(history) : ~history[i].ok})

\* getAndroidSdkPath
getAndroidSdkPath(setting, plat) ==
    IF setting # <<>> THEN setting ELSE defaultSdkRoot(plat)

\* The first occurrence of tok taken out of name (String.prototype.replace
\* with a string pattern).
replaceFirst(name, tok) ==
    LET i == IndexOf(name, tok, 1)
    IN  IF i = 0 THEN name ELSE SubSeq(name, 1, i - 1) \o SubSeq(name, i + 1, Len(name))

endsWith(name, tok) == Len(name) > 0 /\ name[Len(name)] = tok

\* usedRuntimes: the assetId of every element whose state is "installed".
usedRuntimesOf(doc) == {e.assetId : e \in {x \in doc : x.state = "installed"}}

----------------------------------------------------------------------------
(* The initial states: a machine on which every location is populated, or  *)
(* on which one location is present, with any part of it missing.          *)

\* The directories of a location that may be missing.
Removable(plat, layout) ==
    LET root == defaultSdkRoot(plat)
    IN  CASE layout = "deviceSupport" ->
               {deviceSupportPath} \cup
               {Join(deviceSupportPath, n) : n \in {Ds93, Ds164a, Ds164b}}
          [] layout = "sdk" ->
               {root, Join(root, <<"platforms">>), Join(root, <<"build-tools">>),
                Join(root, <<"system-images">>), Join(root, <<"cmdline-tools">>)} \cup
               {Join(Join(root, <<"platforms">>), n) : n \in {Android30, Android31, Android33}} \cup
               {Join(Join(root, <<"build-tools">>), n) : n \in {Bt3003, Bt3300}} \cup
               {Join(Join(root, <<"system-images">>), Android33)}
          [] layout = "customSdk" ->
               {customSdkRoot, Join(customSdkRoot, <<"platforms">>)} \cup
               {Join(Join(customSdkRoot, <<"platforms">>), n) : n \in {Android30, Android31}}
          [] layout = "packs" ->
               {packsPathOf(plat), Join(packsPathOf(plat), PackMaui),
                Join(packsPathOf(plat), PackIos),
                Join(Join(packsPathOf(plat), PackMaui), V803),
                Join(Join(packsPathOf(plat), PackMaui), V8010),
                Join(Join(packsPathOf(plat), PackIos), V1701)}
          [] layout = "runtime" ->
               {runtimePath} \cup {Join(runtimePath, n) : n \in {AssetA, AssetB, AssetAx}}
          [] layout = "nuget" ->
               {nugetCachePath(plat),
                Join(nugetCachePath(plat), <<"newtonsoft.json">>),
                Join(Join(nugetCachePath(plat), <<"newtonsoft.json">>), <<"13.0.1">>),
                Join(nugetCachePath(plat), <<"xunit">>)}

InitialDisks(plat, layout) ==
    {{q \in DiskOf(LayoutFiles(plat, layout)) : \A r \in missing : ~IsPrefix(r, q)} :
        missing \in SUBSET Removable(plat, layout)}

AssetIds == {<<"A">>, <<"A", ASSET, "x">>}

\* The parsed documents: any set of asset elements, each with its attributes.
Documents == SUBSET [assetId : AssetIds, state : {"installed", "downloading"}]

Absent == [status |-> "absent", doc |-> {}]

Manifests ==
    {Absent, [status |-> "unparsable", doc |-> {}]} \cup
    {[status |-> "parsed", doc |-> d] : d \in Documents}

DefaultManifest ==
    [status |-> "parsed", doc |-> {[assetId |-> <<"A">>, state |-> "installed"]}]

NotPicked == [shown |-> FALSE, dismissed |-> FALSE, selection |-> <<>>]

NoComponent == [asked |-> FALSE, path |-> <<>>]

CmdIdle ==
    /\ cmd = "none"
    /\ pc = "idle"
    /\ items = <<>>
    /\ batch = <<>>
    /\ idx = 0
    /\ removedCount = 0
    /\ totalSize = 0
    /\ msgs = <<>>
    /\ log = <<>>
    /\ picked = NotPicked
    /\ confirmed = "none"
    /\ component = NoComponent
    /\ todo = <<>>
    /\ queue = <<>>
    /\ dirs0 = dirs
    /\ cleared = "none"

\* No helper function is being called on its own.
PureIdleBut ==
    /\ labA = <<>>
    /\ labB = <<>>
    /\ cmpRes = <<>>
    /\ group = <<>>
    /\ removal = <<>>
    /\ sizeArg = <<>>
    /\ sizeRes = <<>>

PureIdle ==
    /\ PureIdleBut
    /\ inv = <<>>

Init ==
    /\ platform \in Platforms
    /\ \/ /\ dirs = FullDisk(platform)
          /\ manifest = DefaultManifest
          /\ androidSdkPath \in {<<>>, customSdkRoot}
       \/ /\ \E layout \in Layouts \ {"runtime", "customSdk"} :
                dirs \in InitialDisks(platform, layout)
          /\ manifest = Absent
          /\ androidSdkPath = <<>>
       \/ /\ dirs \in InitialDisks(platform, "customSdk")
          /\ manifest = Absent
          /\ androidSdkPath = customSdkRoot
       \/ /\ dirs \in InitialDisks(platform, "runtime")
          /\ manifest \in Manifests
          /\ runtimePath \notin dirs => manifest = Absent
          /\ androidSdkPath = <<>>
    /\ CmdIdle
    /\ PureIdle

----------------------------------------------------------------------------
(* The interactive commands.                                               *)

Static == UNCHANGED <<platform, manifest, androidSdkPath, cleared, pureVars, inv>>

\* The command returns after showing the messages m.
Return(m) == pc' = "done" /\ msgs' = msgs \o m

\* A command handler starts: nothing is selected or removed yet.
Start(command) ==
    /\ pc = "idle"
    /\ cmd' = command
    /\ dirs0' = dirs
    /\ Static
    /\ UNCHANGED <<dirs, batch, idx, removedCount, totalSize, log, picked, confirmed, component>>

\* hasCandidates with the emptiness test left out.
hasCandidatesAlways(found) == TRUE

\* The check that ends a command before its picker when nothing was found.
hasCandidates(found) == Len(found) # 0

\* isMacOS of a program without the platform checks.
isMacOSAlways(plat) == TRUE

\* process.platform === 'darwin'
isMacOS(plat) == plat = "darwin"

\* The items of the subdirectories listed in order, sorted by size.
FolderItems(plat, disk, order) ==
    StableSort("size",
        [i \in 1..Len(order) |->
            Item(basename(order[i]), order[i], getFolderSize(plat, disk, order[i]), FALSE, "folder")])

cleanIosDeviceSupport ==
    /\ Start("cleanIosDeviceSupport")
    /\ UNCHANGED <<todo, queue>>
    /\ IF ~isMacOS(platform)
       THEN Return(<<Info("This command is only available on macOS", <<>>)>>) /\ items' = items
       ELSE IF ~existsSync(dirs, deviceSupportPath)
       THEN Return(<<Info("No iOS Device Support folders found", <<>>)>>) /\ items' = items
       ELSE \E order \in Orderings(Subdirectories(platform, dirs, deviceSupportPath)) :
               IF ~hasCandidates(order)
               THEN Return(<<Info("No iOS Device Support folders found", <<>>)>>) /\ items' = items
               ELSE /\ items' = FolderItems(platform, dirs, order)
                    /\ pc' = "pick"
                    /\ msgs' = msgs

cleanAndroidSdk ==
    /\ Start("cleanAndroidSdk")
    /\ UNCHANGED <<todo, queue>>
    /\ LET sdkRoot == getAndroidSdkPath(androidSdkPath, platform)
       IN  IF ~existsSync(dirs, sdkRoot)
           THEN Return(<<Error("Android SDK path not found", sdkRoot)>>) /\ items' = items
           ELSE /\ items' = [i \in 1..Len(SdkComponents) |->
                               Item(SdkComponents[i].name, Join(sdkRoot, SdkComponents[i].path),
                                    getFolderSize(platform, dirs, Join(sdkRoot, SdkComponents[i].path)),
                                    FALSE, "component")]
                /\ pc' = "pickComponent"
                /\ msgs' = msgs

\* The single-select picker of cleanAndroidSdk returns, and the versions of
\* the chosen component are listed.
pickComponent ==
    /\ pc = "pickComponent"
    /\ Static
    /\ UNCHANGED <<cmd, dirs, dirs0, batch, idx, removedCount, totalSize, log, picked,
                   confirmed, todo, queue>>
    /\ \E choice \in 0..Len(items) :
          IF choice = 0
          THEN Return(<<>>) /\ items' = items /\ component' = [asked |-> TRUE, path |-> <<>>]
          ELSE LET componentPath == items[choice].path
               IN  /\ component' = [asked |-> TRUE, path |-> componentPath]
                   /\ IF ~existsSync(dirs, componentPath)
                      THEN Return(<<Info("No component found", componentPath)>>) /\ items' = items
                      ELSE \E order \in Orderings(Subdirectories(platform, dirs, componentPath)) :
                              IF ~hasCandidates(order)
                              THEN /\ Return(<<Info("No component versions found", componentPath)>>)
                                   /\ items' = items
                              ELSE /\ items' = FolderItems(platform, dirs, order)
                                   /\ pc' = "pick"
                                   /\ msgs' = msgs

\* The asset folders in listing order, tagged against the manifest and sorted.
AssetItems(plat, disk, order, doc) ==
    StableSort("usage",
        [i \in 1..Len(order) |->
            Item(basename(order[i]), order[i], getFolderSize(plat, disk, order[i]),
                 replaceFirst(basename(order[i]), ASSET) \in usedRuntimesOf(doc), "folder")])

AssetFolders(disk) == {q \in readdirSync(disk, runtimePath) : endsWith(basename(q), ASSET)}

cleanIosSimulatorRuntime ==
    /\ Start("cleanIosSimulatorRuntime")
    /\ UNCHANGED <<todo, queue>>
    /\ IF ~isMacOS(platform)
       THEN Return(<<Info("This command is only available on macOS", <<>>)>>) /\ items' = items
       ELSE IF manifest.status = "absent"
       THEN Return(<<Error("iOS Simulator Runtime XML file not found", <<>>)>>) /\ items' = items
       ELSE IF manifest.status = "unparsable"
       THEN Return(<<Error("Error cleaning iOS Simulator Runtime", <<>>)>>) /\ items' = items
       ELSE \E order \in Orderings(AssetFolders(dirs)) :
               IF ~hasCandidates(order)
               THEN Return(<<Info("No iOS Simulator Runtime assets found", <<>>)>>) /\ items' = items
               ELSE /\ items' = AssetItems(platform, dirs, order, manifest.doc)
                    /\ pc' = "pick"
                    /\ msgs' = msgs

\* One pack with its versions, both in listing order.
PackEntry(plat, disk, packPath, versionOrder) ==
    [item |-> Item(basename(packPath), packPath, getFolderSize(plat, disk, packPath), FALSE, "pack"),
     versions |-> [i \in 1..Len(versionOrder) |->
                      Item(<<SP, SP>> \o basename(versionOrder[i]), versionOrder[i],
                           getFolderSize(plat, disk, versionOrder[i]), FALSE, "version")]]

RECURSIVE Flatten(_)
Flatten(packs) ==
    IF packs = <<>> THEN <<>>
    ELSE <<Head(packs).item>> \o Head(packs).versions \o Flatten(Tail(packs))

\* The ways the versions of every pack may be listed.
VersionOrders(plat, disk, packs) ==
    {f \in [packs -> UNION {Orderings(Subdirectories(plat, disk, q)) : q \in packs}] :
        \A q \in packs : f[q] \in Orderings(Subdirectories(plat, disk, q))}

cleanDotnetPacks ==
    /\ Start("cleanDotnetPacks")
    /\ UNCHANGED <<todo, queue>>
    /\ LET packsPath == packsPathOf(platform)
       IN  IF ~existsSync(dirs, packsPath)
           THEN Return(<<Error(".NET packs directory not found", packsPath)>>) /\ items' = items
           ELSE \E order \in Orderings(Subdirectories(platform, dirs, packsPath)) :
                   IF ~hasCandidates(order)
                   THEN Return(<<Info("No .NET packs found", <<>>)>>) /\ items' = items
                   ELSE \E versionOrder \in VersionOrders(platform, dirs, Subdirectories(platform, dirs, packsPath)) :
                           /\ items' = Flatten(StableSort("packs",
                                  [i \in 1..Len(order) |->
                                      PackEntry(platform, dirs, order[i], versionOrder[order[i]])]))
                           /\ pc' = "pick"
                           /\ msgs' = msgs

\* catchesPerItem of a program with no try/catch inside any removal loop.
catchesNever(command) == FALSE

\* Whether the removal loop of a command catches a failed deletion per item.
catchesPerItem(command) == command # "cleanAllExceptLatest"

\* The paths the removal loops of a command iterate over, for a selection.
batchOf(command, selection) ==
    IF command = "cleanDotnetPacks"
    THEN SelectSeq2(selection, "pack") \o SelectSeq2(selection, "version")
    ELSE Paths(selection)

\* needsConfirm of a program that never shows the in-use warning.
needsConfirmNever(command, selection) == FALSE

\* Whether the in-use warning is shown for a selection.
needsConfirm(command, selection) ==
    /\ command = "cleanIosSimulatorRuntime"
    /\ \E i \in 1..Len(selection) : selection[i].isUsed

\* The multi-select picker returns: dismissed, or with the items selected.
pickItems ==
    /\ pc = "pick"
    /\ Static
    /\ UNCHANGED <<cmd, dirs, dirs0, items, removedCount, totalSize, log, confirmed,
                   component, todo, queue, msgs>>
    /\ \E dismissed \in BOOLEAN, selection \in Selections(items) :
          /\ dismissed => selection = <<>>
          /\ picked' = [shown |-> TRUE, dismissed |-> dismissed, selection |-> selection]
          /\ IF selection = <<>>
             THEN pc' = "done" /\ batch' = batch /\ idx' = idx
             ELSE /\ batch' = batchOf(cmd, selection)
                  /\ idx' = 1
                  /\ pc' = IF needsConfirm(cmd, selection) THEN "confirm" ELSE "removing"

\* The modal in-use warning returns.
confirmRemoval ==
    /\ pc = "confirm"
    /\ Static
    /\ UNCHANGED <<cmd, dirs, dirs0, items, batch, idx, removedCount, totalSize, log,
                   picked, component, todo, queue, msgs>>
    /\ \E answer \in {"Yes", "No", "dismissed"} :
          /\ confirmed' = answer
          /\ pc' = IF answer = "Yes" THEN "removing" ELSE "done"

\* measuredSize that reuses the size the path had when the command scanned.
scannedSize(plat, scanned, disk, p) == getFolderSize(plat, scanned, p)

\* The size a removal loop adds for a path: measured on the disk as it is
\* right before the path's deletion.
measuredSize(plat, scanned, disk, p) == getFolderSize(plat, disk, p)

countAfter(count, ok) == IF ok THEN count + 1 ELSE count

\* sizeAfter that adds the size whether or not the deletion succeeded.
sizeAfterAlways(total, size, ok) == total + size

sizeAfter(total, size, ok) == IF ok THEN total + size ELSE total

removeErrorText(command) ==
    CASE command = "cleanAndroidSdk" -> "Error removing version"
      [] command = "cleanDotnetPacks" -> "Error removing pack or version"
      [] OTHER -> "Error removing"

outerErrorText(command) ==
    CASE command = "cleanIosDeviceSupport" -> "Error cleaning iOS Device Support"
      [] command = "cleanAndroidSdk" -> "Error cleaning Android SDK components"
      [] command = "cleanIosSimulatorRuntime" -> "Error cleaning iOS Simulator Runtime"
      [] command = "cleanDotnetPacks" -> "Error cleaning .NET packs"
      [] OTHER -> "Error cleaning all except latest versions"

summaryText(command) ==
    CASE command = "cleanIosDeviceSupport" -> "Removed iOS Device Support folders"
      [] command = "cleanAndroidSdk" -> "Removed component versions"
      [] command = "cleanIosSimulatorRuntime" -> "Removed iOS Simulator Runtime assets"
      [] command = "cleanDotnetPacks" -> "Removed items"
      [] OTHER -> "Removed items. Kept only the latest versions."

\* One iteration of a removal loop: the size is measured, deleteFolderRecursive
\* runs (its shell command only when the path exists, and that may fail), the
\* totals are updated; after the last iteration the summary is shown.
removeNext ==
    /\ pc = "removing"
    /\ Static
    /\ UNCHANGED <<cmd, dirs0, items, batch, picked, confirmed, component, todo, queue>>
    /\ LET p == batch[idx]
           size == measuredSize(platform, dirs0, dirs, p)
       IN  \E ok \in BOOLEAN :
              /\ ~ok => existsSync(dirs, p) /\ FailureCount(log) < MaxFailures
              /\ log' = Append(log, [path |-> p, size |-> size, ok |-> ok])
              /\ dirs' = IF ok THEN Deleted(dirs, p) ELSE dirs
              /\ removedCount' = countAfter(removedCount, ok)
              /\ totalSize' = sizeAfter(totalSize, size, ok)
              /\ idx' = idx + 1
              /\ IF ~ok /\ ~catchesPerItem(cmd)
                 THEN Return(<<Error(outerErrorText(cmd), <<>>)>>)
                 ELSE LET shown == IF ok THEN msgs
                                   ELSE Append(msgs, Error(removeErrorText(cmd), p))
                      IN  IF idx = Len(batch)
                          THEN /\ msgs' = Append(shown, Summary(summaryText(cmd), removedCount', totalSize'))
                               /\ pc' = "done"
                          ELSE /\ msgs' = shown
                               /\ pc' = "removing"

----------------------------------------------------------------------------
(* The keep-latest sweep (cleanAllExceptLatest).                           *)

Step(kind, path) == [kind |-> kind, path |-> path]

VersionEntries(order) == [i \in 1..Len(order) |-> [label |-> basename(order[i]), path |-> order[i]]]

\* keepLatestVersion of the subdirectories of p, for every listing order.
GroupRemovals(plat, disk, p) ==
    {keepLatestVersion(VersionEntries(order)) : order \in Orderings(Subdirectories(plat, disk, p))}

\* The asset folders that the usedRuntimes of the document do not hold.
UnusedAssets(order, doc) ==
    SelectSeq(VersionEntries(order),
              LAMBDA e : replaceFirst(e.label, ASSET) \notin usedRuntimesOf(doc))

\* What the code between two deletions of the sweep does for one step: the
\* deletions it queues, the steps it puts ahead, and whether it throws.
SweepOutcomes(plat, disk, xml, step) ==
    LET nothing == {[queue |-> <<>>, ahead |-> <<>>, throws |-> FALSE]}
        queued(Q) == {[queue |-> q, ahead |-> <<>>, throws |-> FALSE] : q \in Q}
    IN  CASE step.kind = "deviceSupport" ->
               IF isMacOS(plat) /\ existsSync(disk, step.path)
               THEN queued(GroupRemovals(plat, disk, step.path))
               ELSE nothing
          [] step.kind = "sdk" ->
               IF existsSync(disk, step.path)
               THEN {[queue |-> <<>>, throws |-> FALSE,
                      ahead |-> [i \in 1..Len(SweepComponents) |->
                                    Step("component", Join(step.path, SweepComponents[i]))]]}
               ELSE nothing
          [] step.kind = "component" ->
               IF existsSync(disk, step.path)
               THEN queued(GroupRemovals(plat, disk, step.path))
               ELSE nothing
          [] step.kind = "packs" ->
               IF existsSync(disk, step.path)
               THEN {[queue |-> <<>>, throws |-> FALSE,
                      ahead |-> [i \in 1..Len(order) |-> Step("pack", order[i])]] :
                        order \in Orderings(Subdirectories(plat, disk, step.path))}
               ELSE nothing
          [] step.kind = "pack" ->
               queued(GroupRemovals(plat, disk, step.path))
          [] step.kind = "runtime" ->
               IF isMacOS(plat) /\ existsSync(disk, step.path) /\ xml.status # "absent"
               THEN IF xml.status = "unparsable"
                    THEN {[queue |-> <<>>, ahead |-> <<>>, throws |-> TRUE]}
                    ELSE queued({UnusedAssets(order, xml.doc) : order \in Orderings(AssetFolders(disk))})
               ELSE nothing

cleanAllExceptLatest ==
    /\ Start("cleanAllExceptLatest")
    /\ todo' = <<Step("deviceSupport", deviceSupportPath),
                 Step("sdk", defaultSdkRoot(platform)),
                 Step("packs", packsPathOf(platform)),
                 Step("runtime", runtimePath)>>
    /\ queue' = <<>>
    /\ pc' = "sweep"
    /\ UNCHANGED <<items, msgs>>

\* The sweep runs on to its next group.
sweepAdvance ==
    /\ pc = "sweep"
    /\ queue = <<>>
    /\ todo # <<>>
    /\ Static
    /\ UNCHANGED <<cmd, dirs, dirs0, items, batch, idx, removedCount, totalSize, log,
                   picked, confirmed, component>>
    /\ \E o \in SweepOutcomes(platform, dirs, manifest, Head(todo)) :
          IF o.throws
          THEN Return(<<Error(outerErrorText(cmd), <<>>)>>) /\ UNCHANGED <<todo, queue>>
          ELSE /\ queue' = o.queue
               /\ todo' = o.ahead \o Tail(todo)
               /\ UNCHANGED <<pc, msgs>>

\* One iteration of a removal loop of the sweep.
sweepDelete ==
    /\ pc = "sweep"
    /\ queue # <<>>
    /\ Static
    /\ UNCHANGED <<cmd, dirs0, items, batch, idx, picked, confirmed, component, todo>>
    /\ LET p == Head(queue).path
           size == measuredSize(platform, dirs0, dirs, p)
       IN  \E ok \in BOOLEAN :
              /\ ~ok => existsSync(dirs, p) /\ FailureCount(log) < MaxFailures
              /\ log' = Append(log, [path |-> p, size |-> size, ok |-> ok])
              /\ dirs' = IF ok THEN Deleted(dirs, p) ELSE dirs
              /\ removedCount' = countAfter(removedCount, ok)
              /\ totalSize' = sizeAfter(totalSize, size, ok)
              /\ IF ~ok /\ ~catchesPerItem(cmd)
                 THEN Return(<<Error(outerErrorText(cmd), <<>>)>>) /\ queue' = queue
                 ELSE /\ queue' = Tail(queue)
                      /\ msgs' = IF ok THEN msgs ELSE Append(msgs, Error(removeErrorText(cmd), p))
                      /\ pc' = pc

\* Every group has been swept: the summary is shown.
sweepFinish ==
    /\ pc = "sweep"
    /\ queue = <<>>
    /\ todo = <<>>
    /\ Static
    /\ UNCHANGED <<cmd, dirs, dirs0, items, batch, idx, removedCount, totalSize, log,
                   picked, confirmed, component, todo, queue>>
    /\ Return(<<Summary(summaryText(cmd), removedCount, totalSize)>>)

----------------------------------------------------------------------------
(* The package-cache command (cleanNugetCache).                            *)

\* The disks the cache-clear operation may leave when it reports no failure:
\* the cache folder emptied, or removed with what it held.
ClearedDisks(plat, disk) ==
    {{q \in disk : ~IsPrefix(nugetCachePath(plat), q) \/ q = nugetCachePath(plat)},
     Deleted(disk, nugetCachePath(plat))}

\* The command starts the cache-clear operation and waits for it.
cleanNugetCache ==
    /\ Start("cleanNugetCache")
    /\ pc' = "clearing"
    /\ UNCHANGED <<items, msgs, todo, queue>>

\* The cache-clear operation has ended.  When it failed (a non-zero exit or
\* text on stderr) the command shows the error; otherwise it next measures
\* the cache folder and shows the success message with that size.
nugetCleared ==
    /\ pc = "clearing"
    /\ UNCHANGED <<platform, manifest, androidSdkPath, pureVars, inv>>
    /\ UNCHANGED <<cmd, dirs0, items, batch, idx, removedCount, log, picked, confirmed,
                   component, todo, queue>>
    /\ \E ok \in BOOLEAN :
          IF ok
          THEN /\ cleared' = "ok"
               /\ dirs' \in ClearedDisks(platform, dirs)
               /\ totalSize' = IF existsSync(dirs', nugetCachePath(platform))
                               THEN getFolderSize(platform, dirs', nugetCachePath(platform))
                               ELSE 0
               /\ Return(<<Info("NuGet cache cleared successfully", <<formatBytes(totalSize')>>)>>)
          ELSE /\ cleared' = "failed"
               /\ dirs' \in {dirs} \cup ClearedDisks(platform, dirs)
               /\ totalSize' = totalSize
               /\ Return(<<Error("Error clearing NuGet cache", <<>>)>>)

Next ==
    \/ cleanNugetCache
    \/ nugetCleared
    \/ cleanIosDeviceSupport
    \/ cleanAndroidSdk
    \/ pickComponent
    \/ cleanIosSimulatorRuntime
    \/ cleanDotnetPacks
    \/ pickItems
    \/ confirmRemoval
    \/ removeNext
    \/ cleanAllExceptLatest
    \/ sweepAdvance
    \/ sweepDelete
    \/ sweepFinish

Spec == Init /\ [][Next]_vars

----------------------------------------------------------------------------
(* The harnesses of the comparator and of keepLatestVersion.               *)

V10 == <<"1", ".", "0">>
V15 == <<"1", ".", "5">>
V20 == <<"2", ".", "0">>
V100 == <<"1", "0", ".", "0">>
V101 == <<"1", ".", "0", ".", "1">>
V10a == <<"1", ".", "0", SP, "a">>
V10b == <<"1", ".", "0", SP, "b">>
CmpChars == {TAB, SP, ".", "1", "2"}

StringsUpTo(S, n) == UNION {[1..k -> S] : k \in 0..n}

CmpLabels ==
    StringsUpTo(CmpChars, MaxLabelLen) \cup {V10, V20, V100, V101, V10a, V10b}

GroupLabels == {V10, V20, V15, V100, V10a, V10b}

\* The entries of a directory listing: sibling directories have distinct names.
Listings(L, n) ==
    {s \in UNION {[1..k -> L] : k \in 0..n} :
        \A i, j \in 1..Len(s) : i # j => s[i] # s[j]}

Entry(l) == [label |-> l, path |-> <<l>>]

NoCommand ==
    /\ platform = "darwin"
    /\ dirs = {}
    /\ manifest = Absent
    /\ androidSdkPath = <<>>
    /\ CmdIdle

\* The comparator harness: the sort callback is called on two labels.
CmpInit ==
    /\ NoCommand
    /\ labA \in CmpLabels
    /\ labB \in CmpLabels
    /\ cmpRes = <<>>
    /\ group = <<>>
    /\ removal = <<>>
    /\ sizeArg = <<>>
    /\ sizeRes = <<>>
    /\ inv = <<>>

compareLabels ==
    /\ cmpRes = <<>>
    /\ cmpRes' = <<sortComparator(Entry(labA), Entry(labB))>>
    /\ UNCHANGED <<cmdVars, labA, labB, group, removal, sizeArg, sizeRes, inv>>

CmpSpec == CmpInit /\ [][compareLabels]_vars

\* The keepLatestVersion harness: it is called on one directory listing.
KeepInit ==
    /\ NoCommand
    /\ labA = <<>>
    /\ labB = <<>>
    /\ cmpRes = <<>>
    /\ group \in {[i \in 1..Len(l) |-> Entry(l[i])] : l \in Listings(GroupLabels, MaxGroup)}
    /\ removal = <<>>
    /\ sizeArg = <<>>
    /\ sizeRes = <<>>
    /\ inv = <<>>

callKeepLatest ==
    /\ removal = <<>>
    /\ removal' = <<keepLatestVersion(group)>>
    /\ UNCHANGED <<cmdVars, labA, labB, cmpRes, group, sizeArg, sizeRes, inv>>

KeepSpec == KeepInit /\ [][callKeepLatest]_vars

\* The getFolderSize harness: it is called on a directory path of a tree of
\* which any part may be missing.
TreePaths ==
    DiskOf(TreeFiles) \cup {TreeEmptyDir} \cup OtherEntries \cup DanglingLinks

TreeDisks ==
    {S \in SUBSET TreePaths :
        \A q \in S : Len(q) > 1 =>
            /\ SubSeq(q, 1, Len(q) - 1) \in S
            /\ isDirectory("darwin", SubSeq(q, 1, Len(q) - 1))}

TreeDirectories == {q \in TreePaths : isDirectory("darwin", q)}

SizeInit ==
    /\ platform = "darwin"
    /\ dirs \in TreeDisks
    /\ manifest = Absent
    /\ androidSdkPath = <<>>
    /\ CmdIdle
    /\ labA = <<>>
    /\ labB = <<>>
    /\ cmpRes = <<>>
    /\ group = <<>>
    /\ removal = <<>>
    /\ sizeArg \in TreeDirectories
    /\ sizeRes = <<>>
    /\ inv = <<>>

callGetFolderSize ==
    /\ sizeRes = <<>>
    /\ sizeRes' = IF getFolderSizeThrows(dirs, sizeArg)
                  THEN <<[threw |-> TRUE, size |-> 0]>>
                  ELSE <<[threw |-> FALSE, size |-> getFolderSize(platform, dirs, sizeArg)]>>
    /\ UNCHANGED <<cmdVars, labA, labB, cmpRes, group, removal, sizeArg, inv>>

SizeSpec == SizeInit /\ [][callGetFolderSize]_vars

----------------------------------------------------------------------------
(* Two command invocations whose removal loops run concurrently.  The      *)
(* code between two awaits runs without interruption; an invocation is     *)
(* suspended while the shell command of deleteFolderRecursive runs.        *)

Invocations == {1, 2}

\* An invocation at the start of its removal loop over a batch of paths.
Invocation(kind, paths) ==
    [kind |-> kind, batch |-> paths, idx |-> 1, pc |-> "loop", size |-> 0,
     removedCount |-> 0, totalSize |-> 0, counted |-> <<>>, msgs |-> <<>>]

\* The removal loops that can be about to run over the versions of the
\* platforms component: cleanAndroidSdk with any non-empty selection, the
\* sweep with what keepLatestVersion returned.
LoopsOver(plat, disk) ==
    LET componentPath == Join(defaultSdkRoot(plat), <<"platforms">>)
        orders == Orderings(Subdirectories(plat, disk, componentPath))
    IN  {Invocation("cleanAndroidSdk", Paths(sel)) :
            sel \in UNION {Selections(FolderItems(plat, disk, order)) \ {<<>>} : order \in orders}}
        \cup
        {Invocation("cleanAllExceptLatest", Paths(q)) : q \in GroupRemovals(plat, disk, componentPath)}

ConcInit ==
    /\ platform \in Platforms
    /\ dirs = DiskOf(SdkFiles(platform))
    /\ manifest = Absent
    /\ androidSdkPath = <<>>
    /\ CmdIdle
    /\ PureIdleBut
    /\ inv \in [Invocations -> LoopsOver(platform, dirs)]

\* Whether the shell command succeeds on a path that is no longer there:
\* rm -rf does, rmdir /s /q does not.
succeedsOnMissing(plat) == plat # "win32"

\* The loop's bookkeeping after the await of deleteFolderRecursive returned.
afterDelete(me, p, ok) ==
    LET counted == IF ok
                   THEN [me EXCEPT !.removedCount = @ + 1, !.totalSize = @ + me.size,
                                   !.counted = Append(@, p)]
                   ELSE me
        last == me.idx = Len(me.batch)
    IN  IF ~ok /\ ~catchesPerItem(me.kind)
        THEN [counted EXCEPT !.pc = "done",
                             !.msgs = Append(@, Error(outerErrorText(me.kind), <<>>))]
        ELSE LET shown == IF ok THEN counted.msgs
                          ELSE Append(counted.msgs, Error(removeErrorText(me.kind), p))
             IN  [counted EXCEPT
                     !.idx = @ + 1,
                     !.pc = IF last THEN "done" ELSE "loop",
                     !.msgs = IF last /\ catchesPerItem(me.kind)
                              THEN Append(shown, Summary(summaryText(me.kind),
                                                         counted.removedCount, counted.totalSize))
                              ELSE shown]

\* An iteration starts: the size is measured and deleteFolderRecursive is
\* called; when the path exists the shell command is started and awaited, when
\* it does not the call returns and the iteration ends.
beginRemoval(i) ==
    /\ inv # <<>>
    /\ inv[i].pc = "loop"
    /\ LET p == inv[i].batch[inv[i].idx]
           me == [inv[i] EXCEPT !.size = measuredSize(platform, dirs0, dirs, p)]
       IN  inv' = [inv EXCEPT ![i] = IF existsSync(dirs, p)
                                     THEN [me EXCEPT !.pc = "deleting"]
                                     ELSE afterDelete(me, p, TRUE)]
    /\ UNCHANGED <<cmdVars, pureVars>>

\* The shell command of an invocation ends, and the iteration with it.
shellReturns(i) ==
    /\ inv # <<>>
    /\ inv[i].pc = "deleting"
    /\ LET p == inv[i].batch[inv[i].idx]
       IN  \E ok \in BOOLEAN :
              /\ ok => existsSync(dirs, p) \/ succeedsOnMissing(platform)
              /\ dirs' = IF ok THEN Deleted(dirs, p) ELSE dirs
              /\ inv' = [inv EXCEPT ![i] = afterDelete(inv[i], p, ok)]
    /\ UNCHANGED <<platform, manifest, androidSdkPath, cmd, pc, items, batch, idx, removedCount,
                   totalSize, msgs, log, picked, confirmed, component, todo, queue, dirs0,
                   cleared, pureVars>>

ConcNext == \E i \in Invocations : beginRemoval(i) \/ shellReturns(i)

ConcSpec == ConcInit /\ [][ConcNext]_vars

----------------------------------------------------------------------------
(* Claims about the commands.                                              *)

Range(s) == {s[i] : i \in 1..Len(s)}

Interactive ==
    {"cleanIosDeviceSupport", "cleanAndroidSdk", "cleanIosSimulatorRuntime", "cleanDotnetPacks"}

Sweep == "cleanAllExceptLatest"

Failed == {i \in 1..Len(log) : ~log[i].ok}

Succeeded == {i \in 1..Len(log) : log[i].ok}

RECURSIVE SizesOfSucceeded(_)
SizesOfSucceeded(history) ==
    IF history = <<>> THEN 0
    ELSE (IF Head(history).ok THEN Head(history).size ELSE 0) + SizesOfSucceeded(Tail(history))

RECURSIVE BytesOf(_)
BytesOf(files) ==
    IF files = {} THEN 0
    ELSE LET f == CHOOSE f \in files : TRUE
         IN  FileSize(platform, f) + BytesOf(files \ {f})

\* The bytes of the regular files on a disk.
BytesOnDisk(disk) == BytesOf({q \in disk : isFile(platform, q)})

IsSummary(m) == m.kind = "info" /\ m.text = summaryText(cmd)

ErrorShownFor(p) == \E m \in Range(msgs) : m.kind = "error" /\ m.arg = p

NoErrorShown == \A m \in Range(msgs) : m.kind # "error"

\* The removal loop of an interactive command has been entered.
RemovalEntered ==
    /\ cmd \in Interactive
    /\ picked.selection # <<>>
    /\ pc \in {"removing", "done"}
    /\ confirmed \notin {"No", "dismissed"}

\* C1: in every interactive selection command each selected path gets its own
\* deletion attempt, whatever deletions fail: the attempts made so far are the
\* paths of the batch up to the loop's position, at the end every selected
\* path has been attempted exactly once, and a failed attempt is reported for
\* its path.
C1_EveryPathAttempted ==
    RemovalEntered =>
        /\ \A i \in 1..Len(log) : log[i].path = batch[i]
        /\ pc = "removing" => Len(log) = idx - 1
        /\ pc = "done" =>
            /\ Len(log) = Len(picked.selection)
            /\ {log[i].path : i \in 1..Len(log)} = {e.path : e \in Range(picked.selection)}
        /\ \A i \in Failed : ErrorShownFor(log[i].path)

C1_Witness ==
    /\ RemovalEntered
    /\ pc = "done"
    /\ Len(log) = 3
    /\ ~log[1].ok
    /\ log[2].ok
    /\ ~log[3].ok

\* C2: in the keep-latest sweep a failed deletion never aborts the batch: the
\* sweep still works off every remaining candidate and group, and ends with
\* the summary of the entries actually removed.
C2_SweepNeverAborts ==
    (cmd = Sweep /\ pc = "done" /\ Failed # {}) =>
        /\ queue = <<>>
        /\ todo = <<>>
        /\ IsSummary(msgs[Len(msgs)])
        /\ msgs[Len(msgs)].arg = <<Cardinality(Succeeded), formatBytes(SizesOfSucceeded(log))>>

\* The version groups the sweep covers.
SweptGroups ==
    (IF platform = "darwin" THEN {deviceSupportPath} ELSE {})
    \cup {Join(defaultSdkRoot(platform), SweepComponents[i]) : i \in 1..Len(SweepComponents)}
    \cup Subdirectories(platform, dirs0, packsPathOf(platform))

\* The directories removed since the command was invoked, each counted once.
RemovedDirs == {q \in dirs0 \ dirs : SubSeq(q, 1, Len(q) - 1) \in dirs}

Names(S) == {basename(q) : q \in S}

Platforms0 == Join(defaultSdkRoot(platform), <<"platforms">>)

\* C4: after a sweep in which every deletion succeeded, every version group it
\* covers that had a subdirectory retains exactly one of them, one that no
\* other subdirectory of the group exceeds under the version comparator;
\* removedCount, and the count the summary reports, is the number of
\* directories removed; of android-30, android-33, android-31 only android-33
\* is left.
C4_SweepKeepsLatest ==
    (cmd = Sweep /\ pc = "done" /\ Failed = {}) =>
        /\ \A g \in SweptGroups :
              LET before == Subdirectories(platform, dirs0, g)
                  after == Subdirectories(platform, dirs, g)
              IN  before # {} =>
                     /\ Cardinality(after) = 1
                     /\ after \subseteq before
                     /\ \A k \in after, b \in before :
                           sortComparator([label |-> basename(k)], [label |-> basename(b)]) <= 0
        /\ removedCount = Cardinality(RemovedDirs)
        /\ \A m \in Range(msgs) : IsSummary(m) => m.arg[1] = Cardinality(RemovedDirs)
        /\ Names(Subdirectories(platform, dirs0, Platforms0)) = {Android30, Android33, Android31}
              => Names(Subdirectories(platform, dirs, Platforms0)) = {Android33}

C4_Witness ==
    /\ cmd = Sweep
    /\ pc = "done"
    /\ Names(Subdirectories(platform, dirs0, Platforms0)) = {Android30, Android33, Android31}
    /\ Names(Subdirectories(platform, dirs, Platforms0)) = {Android33}
    /\ removedCount = 2
    /\ \E m \in Range(msgs) : IsSummary(m) /\ m.arg[1] = 2

\* The asset folders removed since the command was invoked.
DeletedAssets == {q \in dirs0 \ dirs : Len(q) = Len(runtimePath) + 1 /\ IsPrefix(runtimePath, q)}

\* The tag the commands give an asset folder.
TaggedInUse(q) == replaceFirst(basename(q), ASSET) \in usedRuntimesOf(manifest.doc)

SelectedInUse == \E i \in 1..Len(picked.selection) : picked.selection[i].isUsed

\* C5: an asset tagged in-use is deleted only by the simulator-runtime command
\* and only after the warning, shown after the selection, was answered Yes;
\* when the selection holds an in-use asset and the warning is declined or
\* dismissed, nothing is deleted; the sweep deletes no in-use asset.
C5_InUseNeedsConfirm ==
    /\ \A q \in DeletedAssets :
          TaggedInUse(q) =>
              /\ cmd = "cleanIosSimulatorRuntime"
              /\ picked.shown
              /\ confirmed = "Yes"
    /\ confirmed # "none" => picked.shown /\ SelectedInUse
    /\ (cmd = "cleanIosSimulatorRuntime" /\ SelectedInUse /\ pc = "removing") => confirmed = "Yes"
    /\ (SelectedInUse /\ confirmed \in {"No", "dismissed"}) =>
          /\ pc = "done"
          /\ log = <<>>
          /\ dirs = dirs0
    /\ cmd = Sweep => \A q \in DeletedAssets : ~TaggedInUse(q)

C5_Witness ==
    /\ cmd = "cleanIosSimulatorRuntime"
    /\ pc = "done"
    /\ confirmed = "Yes"
    /\ \E q \in DeletedAssets : TaggedInUse(q)

C5_SweepWitness ==
    /\ cmd = Sweep
    /\ pc = "done"
    /\ DeletedAssets # {}
    /\ \E q \in AssetFolders(dirs) : TaggedInUse(q)

\* C6: when the manifest is absent or cannot be parsed, the simulator-runtime
\* command and the sweep, on a machine where they scan the asset folders, end
\* with an error shown and no asset folder deleted.
C6_ManifestUnavailable ==
    (/\ platform = "darwin"
     /\ runtimePath \in dirs0
     /\ manifest.status \in {"absent", "unparsable"}
     /\ cmd \in {"cleanIosSimulatorRuntime", Sweep}
     /\ pc = "done") =>
        /\ ~NoErrorShown
        /\ DeletedAssets = {}

InstalledIds == {e.assetId : e \in {x \in manifest.doc : x.state = "installed"}}

StripSuffix(name) == SubSeq(name, 1, Len(name) - 1)

\* C7: an asset folder is tagged in-use exactly when its name without the
\* ".asset" suffix is the assetId of an element whose state is "installed",
\* and a sweep that ran to its end has removed exactly the folders not so
\* tagged.
C7_TaggedBySuffix ==
    /\ (cmd = "cleanIosSimulatorRuntime" /\ pc = "pick") =>
          \A i \in 1..Len(items) :
              items[i].isUsed <=> StripSuffix(items[i].label) \in InstalledIds
    /\ (/\ cmd = Sweep
        /\ pc = "done"
        /\ platform = "darwin"
        /\ manifest.status = "parsed"
        /\ \E m \in Range(msgs) : IsSummary(m)) =>
          DeletedAssets = {q \in AssetFolders(dirs0) : StripSuffix(basename(q)) \notin InstalledIds}

\* The scan of an interactive command found nothing to present.
NothingFound ==
    CASE cmd = "cleanIosDeviceSupport" ->
           platform = "darwin" /\ Subdirectories(platform, dirs0, deviceSupportPath) = {}
      [] cmd = "cleanAndroidSdk" ->
           /\ component.asked
           /\ component.path # <<>>
           /\ Subdirectories(platform, dirs0, component.path) = {}
      [] cmd = "cleanIosSimulatorRuntime" ->
           platform = "darwin" /\ manifest.status = "parsed" /\ AssetFolders(dirs0) = {}
      [] cmd = "cleanDotnetPacks" ->
           /\ packsPathOf(platform) \in dirs0
           /\ Subdirectories(platform, dirs0, packsPathOf(platform)) = {}
      [] OTHER -> FALSE

\* C8: in an interactive command a deletion is attempted only after the picker
\* returned a non-empty selection; the picker is never shown an empty list,
\* and a scan that found nothing ends the command with one informational
\* message; a dismissed picker or an empty selection ends the command with no
\* deletion attempt and no error message.
C8_PickerGatesRemoval ==
    cmd \in Interactive =>
        /\ (log # <<>> \/ pc \in {"confirm", "removing"}) =>
              picked.shown /\ picked.selection # <<>>
        /\ (picked.shown \/ pc = "pick") => items # <<>>
        /\ (pc = "done" /\ NothingFound) =>
              /\ ~picked.shown
              /\ log = <<>>
              /\ Len(msgs) = 1
              /\ msgs[1].kind = "info"
        /\ (pc = "done" /\ picked.shown /\ picked.selection = <<>>) =>
              /\ log = <<>>
              /\ dirs = dirs0
              /\ NoErrorShown

C8_Witness ==
    /\ cmd = "cleanDotnetPacks"
    /\ pc = "done"
    /\ picked.shown
    /\ picked.dismissed
    /\ dirs = dirs0

C8_EmptyWitness ==
    /\ cmd = "cleanAndroidSdk"
    /\ pc = "done"
    /\ NothingFound
    /\ Len(msgs) = 1

\* C9: removedCount is the number of deletions that succeeded and totalSize
\* the sum of the sizes measured right before them, which is the number of
\* bytes that left the disk; a failed deletion adds to neither and is reported;
\* the summary reports these two totals.
C9_Totals ==
    /\ removedCount = Cardinality(Succeeded)
    /\ totalSize = SizesOfSucceeded(log)
    /\ cmd # "cleanNugetCache" => totalSize = BytesOnDisk(dirs0) - BytesOnDisk(dirs)
    /\ cmd \in Interactive => \A i \in Failed : ErrorShownFor(log[i].path)
    /\ \A m \in Range(msgs) :
          IsSummary(m) => m.arg = <<Cardinality(Succeeded), formatBytes(SizesOfSucceeded(log))>>

C9_Witness ==
    /\ pc = "done"
    /\ Len(log) = 2
    /\ ~log[1].ok
    /\ log[2].ok
    /\ removedCount = 1
    /\ totalSize = log[2].size
    /\ totalSize > 0
    /\ ErrorShownFor(log[1].path)
    /\ \E m \in Range(msgs) : IsSummary(m)

----------------------------------------------------------------------------
(* Claims about the comparator and keepLatestVersion.                      *)

\* The part of a label before its first character out of delimiters.
TokenBefore(label, delimiters) ==
    LET stops == {i \in 1..Len(label) : label[i] \in delimiters}
    IN  IF stops = {} THEN label
        ELSE SubSeq(label, 1, (CHOOSE i \in stops : \A j \in stops : i <= j) - 1)

\* The callback's result read as an order on its operands: the sort is
\* descending, so a positive result puts the first operand below the second.
FirstIsLess == cmpRes = <<1>>
ComparedEqual == cmpRes = <<0>>

ComparatorExamples ==
    /\ labA = labB => ComparedEqual
    /\ labA = V20 /\ labB = V100 => FirstIsLess
    /\ labA = V10 /\ labB = V101 => FirstIsLess

\* C10 as stated: the comparison looks only at the leading
\* whitespace-delimited token of each label (two labels with the same leading
\* token compare equal), x compares equal to x, "2.0" is less than "10.0" and
\* "1.0" is less than "1.0.1".
C10_WhitespaceToken ==
    cmpRes # <<>> =>
        /\ ComparatorExamples
        /\ TokenBefore(labA, {SP, TAB}) = TokenBefore(labB, {SP, TAB}) => ComparedEqual

\* C10 amended: the token is the part of the label before its first space
\* character (U+0020); any other white space, such as a tab, belongs to the
\* token.  Two labels with the same such token compare equal, x compares equal
\* to x, "2.0" is less than "10.0" and "1.0" is less than "1.0.1".
C10_SpaceToken ==
    cmpRes # <<>> =>
        /\ ComparatorExamples
        /\ TokenBefore(labA, {SP}) = TokenBefore(labB, {SP}) => ComparedEqual

C10_Witness ==
    /\ labA = V10a
    /\ labB = V10b
    /\ ComparedEqual

KeptOf(result) == Range(group) \ Range(result)

\* C3: keepLatestVersion returns nothing for a group of at most one entry; for
\* a group of n >= 2 it returns n-1 entries of the group, each once, so that
\* exactly one entry is kept, and the kept entry is not below any returned
\* entry under the comparator, also among labels that compare equal; for
\* ["1.0", "2.0", "1.5"] it returns "1.0" and "1.5" and keeps "2.0".
C3_KeepLatest ==
    removal # <<>> =>
        LET result == removal[1]
            n == Len(group)
        IN  /\ n <= 1 => result = <<>>
            /\ n >= 2 =>
                /\ Len(result) = n - 1
                /\ Range(result) \subseteq Range(group)
                /\ Cardinality(Range(result)) = n - 1
                /\ Cardinality(KeptOf(result)) = 1
                /\ \A k \in KeptOf(result), r \in Range(result) : sortComparator(k, r) <= 0
            /\ group = <<Entry(V10), Entry(V20), Entry(V15)>> =>
                /\ Range(result) = {Entry(V10), Entry(V15)}
                /\ KeptOf(result) = {Entry(V20)}

C3_Witness ==
    /\ group = <<Entry(V10a), Entry(V20), Entry(V10b)>>
    /\ removal = << <<Entry(V10a), Entry(V10b)>> >>

----------------------------------------------------------------------------
(* Claims about the presented lists, the platform and the SDK root.        *)

\* The bytes of the folder an item of the picker stands for.
ItemBytes(it) == getFolderSize(platform, dirs0, it.path)

Descending(list) ==
    \A i, j \in 1..Len(list) : i < j => ItemBytes(list[i]) >= ItemBytes(list[j])

\* C11: the list handed to the multi-select picker is sorted descending by
\* the entries' bytes in the flat layouts and, for the packs, among the pack
\* entries; in the asset layout every not-in-use entry precedes every in-use
\* entry and entries of the same usage status are sorted descending by bytes.
C11_SortedByBytes ==
    (cmd \in Interactive /\ pc = "pick") =>
        CASE cmd = "cleanIosSimulatorRuntime" ->
               \A i, j \in 1..Len(items) :
                   i < j =>
                      /\ ~(items[i].isUsed /\ ~items[j].isUsed)
                      /\ items[i].isUsed = items[j].isUsed =>
                            ItemBytes(items[i]) >= ItemBytes(items[j])
          [] cmd = "cleanDotnetPacks" ->
               Descending(SelectSeq(items, LAMBDA it : it.kind = "pack"))
          [] OTHER -> Descending(items)

\* The paths of a disk inside the locations that only macOS has.
MacOnly(disk) ==
    {q \in disk : IsPrefix(deviceSupportPath, q) \/ IsPrefix(runtimePath, q)}

\* C12: on a platform other than macOS the device-support command and the
\* simulator-runtime command end at once with one informational message, with
\* no error, no list built, no picker and no deletion; the sweep attempts no
\* deletion inside the device-support and simulator-runtime locations and
\* leaves them as they were.
C12_NonMacNoOp ==
    platform # "darwin" =>
        /\ cmd \in {"cleanIosDeviceSupport", "cleanIosSimulatorRuntime"} =>
              /\ pc = "done"
              /\ Len(msgs) = 1
              /\ msgs[1].kind = "info"
              /\ items = <<>>
              /\ ~picked.shown
              /\ log = <<>>
              /\ dirs = dirs0
        /\ cmd = Sweep =>
              /\ MacOnly(dirs) = MacOnly(dirs0)
              /\ \A i \in 1..Len(log) : log[i].path \notin MacOnly(dirs0)

C12_Witness ==
    /\ platform = "win32"
    /\ cmd = "cleanIosDeviceSupport"
    /\ pc = "done"
    /\ Cardinality(Subdirectories(platform, dirs, deviceSupportPath)) = 3
    /\ msgs = <<Info("This command is only available on macOS", <<>>)>>

C12_SweepWitness ==
    /\ platform = "linux"
    /\ cmd = Sweep
    /\ pc = "done"
    /\ log # <<>>
    /\ \E m \in Range(msgs) : IsSummary(m)
    /\ Cardinality(Subdirectories(platform, dirs, deviceSupportPath)) = 3
    /\ Cardinality(AssetFolders(dirs)) = 3

\* The SDK root the setting and the platform resolve to.
ResolvedSdkRoot ==
    IF androidSdkPath # <<>> THEN androidSdkPath ELSE defaultSdkRoot(platform)

SdkRoots == {defaultSdkRoot(platform), customSdkRoot}

\* C13: the SDK components command and the sweep take the configured override
\* as their SDK root whenever it is set and the platform's default only when
\* it is not: they attempt no deletion inside, and remove nothing from, an SDK
\* root other than the resolved one, and a sweep that ran to its end leaves at
\* most one version in each swept component of the resolved root.
C13_OverrideIsRoot ==
    cmd \in {"cleanAndroidSdk", Sweep} =>
        /\ \A r \in SdkRoots \ {ResolvedSdkRoot} :
              /\ \A q \in dirs0 \ dirs : ~IsPrefix(r, q)
              /\ \A i \in 1..Len(log) : ~IsPrefix(r, log[i].path)
        /\ (cmd = Sweep /\ pc = "done" /\ Failed = {} /\ \E m \in Range(msgs) : IsSummary(m)) =>
              \A i \in 1..Len(SweepComponents) :
                  Cardinality(Subdirectories(platform, dirs,
                                  Join(ResolvedSdkRoot, SweepComponents[i]))) <= 1

\* The bytes of the regular files of a disk at any depth inside p.
BytesInside(disk, p) == BytesOf({q \in disk : isFile(platform, q) /\ IsPrefix(p, q)})

\* C14: getFolderSize returns 0 for a path that does not exist and, for every
\* existing directory tree, the sum of the byte lengths of the regular files
\* inside it at any depth, entries that are neither regular files nor
\* directories adding 0.
C14_SizeIsSumOfFiles ==
    sizeRes # <<>> =>
        /\ ~sizeRes[1].threw
        /\ sizeRes[1].size = IF sizeArg \in dirs THEN BytesInside(dirs, sizeArg) ELSE 0

\* What holds of getFolderSize: the same, for the trees in which fs.statSync
\* succeeds on every entry.
SizeOfStatableTrees ==
    (sizeRes # <<>> /\ ~getFolderSizeThrows(dirs, sizeArg)) =>
        /\ ~sizeRes[1].threw
        /\ sizeRes[1].size = IF sizeArg \in dirs THEN BytesInside(dirs, sizeArg) ELSE 0

SizeWitness ==
    /\ sizeArg = treeRoot
    /\ dirs = TreePaths \ DanglingLinks
    /\ sizeRes = <<[threw |-> FALSE, size |-> 31]>>

\* The selection holds a pack together with one of its own versions.
NestedSelection ==
    \E a, b \in Range(picked.selection) :
        a.kind = "pack" /\ b.kind = "version" /\ IsPrefix(a.path, b.path)

\* The bytes, before the command, of the files inside the selected folders,
\* each file once.
SelectedBytes ==
    BytesOf({q \in dirs0 : isFile(platform, q) /\
                \E e \in Range(picked.selection) : IsPrefix(e.path, q)})

\* C15: when the packs command removes a pack together with versions of that
\* pack, the freed bytes it adds up and reports never exceed the bytes the
\* selected folders held before the removal, each file counted once, whether
\* the pack's deletion succeeds or fails.
C15_NoDoubleCounting ==
    (cmd = "cleanDotnetPacks" /\ NestedSelection) =>
        /\ totalSize <= SelectedBytes
        /\ \A m \in Range(msgs) : IsSummary(m) => m.arg[2] = formatBytes(totalSize)

C15_Witness ==
    /\ cmd = "cleanDotnetPacks"
    /\ pc = "done"
    /\ NestedSelection
    /\ Len(log) = 3
    /\ log[1].ok /\ log[1].size = 305
    /\ log[2].ok /\ log[2].size = 0
    /\ totalSize = 305
    /\ \E m \in Range(msgs) : IsSummary(m)

C15_FailedPackWitness ==
    /\ cmd = "cleanDotnetPacks"
    /\ pc = "done"
    /\ NestedSelection
    /\ Len(log) = 3
    /\ ~log[1].ok
    /\ log[2].ok /\ log[3].ok
    /\ totalSize = 300

\* C16: the package-cache command measures the cache before the clear
\* operation runs, so the size in its success message is the size the cache
\* had before clearing; the success message is shown only when the clear
\* operation reported no failure, and an error message is shown otherwise.
C16_MeasuredBeforeClearing ==
    (cmd = "cleanNugetCache" /\ pc = "done") =>
        /\ Len(msgs) = 1
        /\ cleared = "ok" =>
              /\ msgs[1].kind = "info"
              /\ msgs[1].arg = <<formatBytes(getFolderSize(platform, dirs0, nugetCachePath(platform)))>>
        /\ cleared = "failed" => msgs[1].kind = "error"

\* What holds of the command: the message follows the clear operation's
\* report, and the size in the success message is the size of the cache after
\* clearing.
NugetMessageFollowsReport ==
    (cmd = "cleanNugetCache" /\ pc = "done") =>
        /\ Len(msgs) = 1
        /\ cleared = "ok" =>
              /\ msgs[1].kind = "info"
              /\ msgs[1].arg = <<formatBytes(getFolderSize(platform, dirs, nugetCachePath(platform)))>>
        /\ cleared = "failed" => msgs[1].kind = "error"

\* The paths both invocations counted as removed.
CountedByBoth == Range(inv[1].counted) \cap Range(inv[2].counted)

\* C17: when two invocations with overlapping removal candidates interleave
\* at their suspension points, no path is counted as removed by both, and the
\* freed bytes of the two together never exceed the bytes that left the disk.
C17_CountedOnce ==
    inv # <<>> =>
        /\ CountedByBoth = {}
        /\ inv[1].totalSize + inv[2].totalSize <= BytesOnDisk(dirs0) - BytesOnDisk(dirs)

\* What holds of two concurrent invocations: each one's totals are those of
\* the paths it counted, and nothing is counted while its path is on disk.
ConcTotalsAreOwn ==
    inv # <<>> =>
        \A i \in Invocations :
            /\ inv[i].removedCount = Len(inv[i].counted)
            /\ \A k \in 1..Len(inv[i].counted) : inv[i].counted[k] \notin dirs

====
